---------------------------- MODULE Spec2Model ----------------------------
(***************************************************************************)
(* Litera backend (src/main.py, src/schemas.py): the player store, the     *)
(* action log and the two request handlers start_session / submit_choice.  *)
(*                                                                         *)
(* Strings that the code converts (the module tag, which submit_choice     *)
(* lower-cases) are sequences of one-character strings; strings that the   *)
(* code only compares or copies are TLA+ strings.  Python dicts are        *)
(* functions from a finite set of string keys; Python None read out of a   *)
(* dict is the value NoneVal.                                              *)
(***************************************************************************)
EXTENDS Integers, Sequences, FiniteSets, TLC

VARIABLES
    players,    \* db["player"]: the documents of the player collection, in insertion order
    actionlog,  \* db["actionlog"]: the documents appended to the action log collection since
                \* the process started, in insertion order (no handler reads the collection)
    resp,       \* the response of the request that completed last
    last,       \* the request handled last, with the store as it was when it arrived
    pc,         \* per worker: where its request handler stands
    wreq,       \* per worker: the request body it is handling
    wloc,       \* per worker: the handler's locals after the resolver ran
    writes      \* the update_one calls applied so far, in order, each with what its handler had read

vars == <<players, actionlog, resp, last, pc, wreq, wloc, writes>>

-----------------------------------------------------------------------------
(* Bounds of the model *)

\* At most this many action log documents are appended in one behaviour.
MaxLog == 2

-----------------------------------------------------------------------------
(* Python values *)

NoneVal == "<None>"

EmptyDict == [k \in {} |-> 0]

\* dict.get(key, default)
Get(d, key, default) == IF key \in DOMAIN d THEN d[key] ELSE default

\* d[key] = value
DictSet(d, key, value) ==
    [k \in (DOMAIN d) \cup {key} |-> IF k = key THEN value ELSE d[k]]

DocAlwaysTruthy(d) == TRUE

\* truth value of a dict or of None as `if existing:` / `if not player_doc:` test it
DocTruthy(d) == DOMAIN d # {}

\* truth value of the JSON booleans that `if success:` tests
Truthy(v) == v = TRUE

Min(a, b) == IF a <= b THEN a ELSE b

Max(a, b) == IF a >= b THEN a ELSE b

UpperAlpha ==
    <<"A","B","C","D","E","F","G","H","I","J","K","L","M",
      "N","O","P","Q","R","S","T","U","V","W","X","Y","Z">>

LowerAlpha ==
    <<"a","b","c","d","e","f","g","h","i","j","k","l","m",
      "n","o","p","q","r","s","t","u","v","w","x","y","z">>

\* each upper-case letter's lower-case letter
ToLower ==
    [c \in {UpperAlpha[i] : i \in DOMAIN UpperAlpha} |->
        LowerAlpha[CHOOSE i \in DOMAIN UpperAlpha : UpperAlpha[i] = c]]

LowerChar(c) == IF c \in DOMAIN ToLower THEN ToLower[c] ELSE c

\* str.lower()
Lower(s) == [i \in DOMAIN s |-> LowerChar(s[i])]

-----------------------------------------------------------------------------
(* The module tags the handler compares against, and the tags clients send *)

PREBUNKING == <<"p","r","e","b","u","n","k","i","n","g">>

ETHICAL == <<"e","t","h","i","c","a","l">>

PROFESSIONAL == <<"p","r","o","f","e","s","s","i","o","n","a","l">>

KnownModules == {PREBUNKING, ETHICAL, PROFESSIONAL}

\* a recognised tag in another letter case, and a tag of no module
EthicalCapital == <<"E","t","h","i","c","a","l">>

PrebunkingUpper == <<"P","R","E","B","U","N","K","I","N","G">>

QuizTag == <<"q","u","i","z">>

-----------------------------------------------------------------------------
(* Documents *)

\* Player(session_id=...): the schema's defaults
Player(session_id) ==
    [session_id |-> session_id,
     public_trust |-> 50,
     personal_clout |-> 50,
     professional_skill |-> 0,
     relationships |-> EmptyDict]

ActionLogDefaultOutcome(session_id, module, action_type, payload, outcome) ==
    [session_id |-> session_id,
     module |-> module,
     action_type |-> action_type,
     payload |-> payload,
     outcome |-> EmptyDict]

\* ActionLog(session_id=..., module=..., action_type=..., payload=..., outcome=...)
ActionLog(session_id, module, action_type, payload, outcome) ==
    [session_id |-> session_id,
     module |-> module,
     action_type |-> action_type,
     payload |-> payload,
     outcome |-> outcome]

-----------------------------------------------------------------------------
(* The document store *)

Matching(coll, session_id) ==
    {i \in DOMAIN coll : coll[i].session_id = session_id}

FirstMatch(coll, session_id) ==
    CHOOSE i \in Matching(coll, session_id) :
        \A j \in Matching(coll, session_id) : i <= j

\* collection.find_one({"session_id": ...}): the first matching document, or None
FindOne(coll, session_id) ==
    IF Matching(coll, session_id) = {} THEN EmptyDict
    ELSE coll[FirstMatch(coll, session_id)]

\* collection.update_one({"session_id": ...}, {"$set": fields}): the first
\* matching document gets the fields of `fields`, the others stay
UpdateOne(coll, session_id, fields) ==
    IF Matching(coll, session_id) = {} THEN coll
    ELSE [coll EXCEPT ![FirstMatch(coll, session_id)] =
            [k \in DOMAIN @ \cup DOMAIN fields |->
                IF k \in DOMAIN fields THEN fields[k] ELSE @[k]]]

\* create_document(collection_name, model): one document appended
CreateDocument(coll, doc) == Append(coll, doc)

-----------------------------------------------------------------------------
(* The choice resolver: the rules of submit_choice *)

\* the handler's locals read from the player document
Locals(player_doc) ==
    [public_trust |-> Get(player_doc, "public_trust", 50),
     personal_clout |-> Get(player_doc, "personal_clout", 50),
     professional_skill |-> Get(player_doc, "professional_skill", 0),
     relationships |-> Get(player_doc, "relationships", EmptyDict)]

Resolved(st, outcome) ==
    [ok |-> TRUE,
     public_trust |-> st.public_trust,
     personal_clout |-> st.personal_clout,
     professional_skill |-> st.professional_skill,
     relationships |-> st.relationships,
     outcome |-> outcome]

ResolvePrebunkingByTruth(st, payload) ==
    LET label == Get(payload, "label", NoneVal)
        truth == Get(payload, "truth", NoneVal)
    IN  IF label = truth
        THEN Resolved(
                [st EXCEPT
                    !.public_trust = Min(100, @ + 5),
                    !.personal_clout =
                        IF truth # "verified" THEN Max(0, @ - 1) ELSE Min(100, @ + 2)],
                [message |-> "Good call.",
                 delta |-> [public_trust |-> 5,
                            personal_clout |-> IF truth = "verified" THEN 2 ELSE -1]])
        ELSE Resolved(
                [st EXCEPT
                    !.public_trust = Max(0, @ - 8),
                    !.personal_clout =
                        IF truth # "verified" THEN Min(100, @ + 4) ELSE Max(0, @ - 2)],
                [message |-> "That choice undermined trust.",
                 delta |-> [public_trust |-> -8,
                            personal_clout |-> IF truth # "verified" THEN 4 ELSE -2]])

\* module == "prebunking"
ResolvePrebunking(st, payload) ==
    LET label == Get(payload, "label", NoneVal)
        truth == Get(payload, "truth", NoneVal)
    IN  IF label = truth
        THEN Resolved(
                [st EXCEPT
                    !.public_trust = Min(100, @ + 5),
                    !.personal_clout =
                        IF truth # "verified" THEN Max(0, @ - 1) ELSE Min(100, @ + 2)],
                [message |-> "Good call.",
                 delta |-> [public_trust |-> 5,
                            personal_clout |-> IF truth = "verified" THEN 2 ELSE -1]])
        ELSE Resolved(
                [st EXCEPT
                    !.public_trust = Max(0, @ - 8),
                    !.personal_clout =
                        IF label # "verified" THEN Min(100, @ + 4) ELSE Max(0, @ - 2)],
                [message |-> "That choice undermined trust.",
                 delta |-> [public_trust |-> -8,
                            personal_clout |-> IF label # "verified" THEN 4 ELSE -2]])

RelUpUnclamped(relationships, k, d) ==
    DictSet(relationships, k, Get(relationships, k, 50) + d)

\* relationships[k] = min(100, relationships.get(k, 50) + d)
RelUp(relationships, k, d) ==
    DictSet(relationships, k, Min(100, Get(relationships, k, 50) + d))

RelDownFromZero(relationships, k, d) ==
    DictSet(relationships, k, Max(0, Get(relationships, k, 0) - d))

\* relationships[k] = max(0, relationships.get(k, 50) - d)
RelDown(relationships, k, d) ==
    DictSet(relationships, k, Max(0, Get(relationships, k, 50) - d))

\* module == "ethical"
ResolveEthical(st, payload) ==
    LET choice == Get(payload, "choice", NoneVal)
    IN  CASE choice = "intervene" ->
                Resolved(
                    [st EXCEPT
                        !.public_trust = Min(100, @ + 6),
                        !.relationships = RelUp(RelUp(@, "victim", 8), "bystander", 8)],
                    [message |-> "You stood up. Respect earned.",
                     delta |-> [public_trust |-> 6,
                                relationships |-> [victim |-> 8, bystander |-> 8]]])
          [] choice = "report" ->
                Resolved(
                    [st EXCEPT
                        !.public_trust = Min(100, @ + 4),
                        !.relationships = RelUp(@, "victim", 6)],
                    [message |-> "You reported the issue.",
                     delta |-> [public_trust |-> 4,
                                relationships |-> [victim |-> 6]]])
          [] choice = "stay_silent" ->
                Resolved(
                    [st EXCEPT
                        !.public_trust = Max(0, @ - 5),
                        !.relationships = RelDown(@, "victim", 7)],
                    [message |-> "Silence has a cost.",
                     delta |-> [public_trust |-> -5,
                                relationships |-> [victim |-> -7]]])
          [] choice = "participate" ->
                Resolved(
                    [st EXCEPT
                        !.public_trust = Max(0, @ - 12),
                        !.relationships = RelDown(RelDown(@, "victim", 10), "bystander", 10)],
                    [message |-> "Harmful choice hurt your standing.",
                     delta |-> [public_trust |-> -12,
                                relationships |-> [victim |-> -10, bystander |-> -10]]])
          [] OTHER ->
                Resolved(st, [message |-> "No effect"])

ResolveProfessionalUnreportedTrust(st, payload) ==
    LET success == Get(payload, "success", FALSE)
    IN  IF Truthy(success)
        THEN Resolved(
                [st EXCEPT
                    !.professional_skill = Min(100, @ + 7),
                    !.public_trust = Min(100, @ + 2)],
                [message |-> "Professional skill leveled up!",
                 delta |-> [professional_skill |-> 7]])
        ELSE Resolved(
                [st EXCEPT !.professional_skill = Max(0, @ - 2)],
                [message |-> "Incomplete attempt. Try again.",
                 delta |-> [professional_skill |-> -2]])

ResolveProfessionalNoFloor(st, payload) ==
    LET success == Get(payload, "success", FALSE)
    IN  IF Truthy(success)
        THEN Resolved(
                [st EXCEPT
                    !.professional_skill = Min(100, @ + 7),
                    !.public_trust = Min(100, @ + 2)],
                [message |-> "Professional skill leveled up!",
                 delta |-> [professional_skill |-> 7, public_trust |-> 2]])
        ELSE Resolved(
                [st EXCEPT !.professional_skill = @ - 2],
                [message |-> "Incomplete attempt. Try again.",
                 delta |-> [professional_skill |-> -2]])

\* module == "professional"
ResolveProfessional(st, payload) ==
    LET success == Get(payload, "success", FALSE)
    IN  IF Truthy(success)
        THEN Resolved(
                [st EXCEPT
                    !.professional_skill = Min(100, @ + 7),
                    !.public_trust = Min(100, @ + 2)],
                [message |-> "Professional skill leveled up!",
                 delta |-> [professional_skill |-> 7, public_trust |-> 2]])
        ELSE Resolved(
                [st EXCEPT !.professional_skill = Max(0, @ - 2)],
                [message |-> "Incomplete attempt. Try again.",
                 delta |-> [professional_skill |-> -2]])

ResolveLenient(player_doc, module, payload) ==
    CASE module = PREBUNKING -> ResolvePrebunking(Locals(player_doc), payload)
      [] module = ETHICAL -> ResolveEthical(Locals(player_doc), payload)
      [] module = PROFESSIONAL -> ResolveProfessional(Locals(player_doc), payload)
      [] OTHER -> Resolved(Locals(player_doc), [message |-> "No effect"])

\* the if/elif chain over the lower-cased module tag; ok = FALSE is the
\* HTTPException(400) of the final else
Resolve(player_doc, module, payload) ==
    CASE module = PREBUNKING -> ResolvePrebunking(Locals(player_doc), payload)
      [] module = ETHICAL -> ResolveEthical(Locals(player_doc), payload)
      [] module = PROFESSIONAL -> ResolveProfessional(Locals(player_doc), payload)
      [] OTHER -> [ok |-> FALSE]

\* the {"$set": {...}} document of update_one
SetFields(r) ==
    [public_trust |-> r.public_trust,
     personal_clout |-> r.personal_clout,
     professional_skill |-> r.professional_skill,
     relationships |-> r.relationships]

-----------------------------------------------------------------------------
(* Responses *)

HTTPException(status_code, detail) ==
    [status |-> status_code, detail |-> detail]

StartResponseDefaults(session_id, existing) ==
    [status |-> 200, body |-> Player(session_id)]

\* what start_session returns for an existing document
StartResponse(session_id, existing) ==
    [status |-> 200,
     body |-> [session_id |-> session_id,
               public_trust |-> Get(existing, "public_trust", 50),
               personal_clout |-> Get(existing, "personal_clout", 50),
               professional_skill |-> Get(existing, "professional_skill", 0),
               relationships |-> Get(existing, "relationships", EmptyDict)]]

\* what submit_choice returns
ChoiceResponse(session_id, r) ==
    [status |-> 200,
     body |-> [session_id |-> session_id,
               public_trust |-> r.public_trust,
               personal_clout |-> r.personal_clout,
               professional_skill |-> r.professional_skill,
               relationships |-> r.relationships,
               outcome |-> r.outcome]]

-----------------------------------------------------------------------------
(* What clients send *)

SessionIds == {"s1", "s2"}

Labels == {"verified", "misleading", "hoax"}

Choices == {"intervene", "report", "stay_silent", "participate"}

\* payloads of a prebunking scenario, one without its truth and one without either key
PrebunkingPayloads ==
    {[label |-> l, truth |-> t] : l \in Labels, t \in Labels}
        \cup {[label |-> "hoax"], EmptyDict}

\* payloads of an ethical dilemma: the four recognised choices and another value
EthicalPayloads ==
    {[choice |-> c] : c \in Choices \cup {"other"}} \cup {EmptyDict}

\* payloads of a professional task
ProfessionalPayloads ==
    {[task |-> "email", success |-> b] : b \in BOOLEAN} \cup {[task |-> "email"]}

ChoiceRequest(session_id, module, action_type, payload) ==
    [session_id |-> session_id,
     module |-> module,
     action_type |-> action_type,
     payload |-> payload]

\* The choice requests of the model: every payload of every module for
\* session s1, recognised tags in another letter case, a tag of no module,
\* and a few requests for session s2.
Requests ==
    {ChoiceRequest("s1", PREBUNKING, "classify", p) : p \in PrebunkingPayloads}
    \cup {ChoiceRequest("s1", ETHICAL, "decide", p) : p \in EthicalPayloads}
    \cup {ChoiceRequest("s1", PROFESSIONAL, "task", p) : p \in ProfessionalPayloads}
    \cup {ChoiceRequest("s1", EthicalCapital, "decide", [choice |-> "report"]),
          ChoiceRequest("s1", PrebunkingUpper, "classify",
                        [label |-> "hoax", truth |-> "hoax"]),
          ChoiceRequest("s1", QuizTag, "classify", [label |-> "hoax", truth |-> "hoax"])}
    \cup {ChoiceRequest("s2", ETHICAL, "decide", [choice |-> "participate"]),
          ChoiceRequest("s2", PROFESSIONAL, "task", [success |-> FALSE]),
          ChoiceRequest("s2", QuizTag, "task", [success |-> TRUE])}

StartSessionRequest(session_id) == [session_id |-> session_id]

-----------------------------------------------------------------------------
(* Player documents the store may hold when the process starts.  Each is   *)
(* what the handlers leave after a run of choices from the defaults:       *)
(* SeedHigh after report x8, prebunking verified/verified x23,             *)
(* professional success x14, prebunking hoax/misleading, professional      *)
(* failure, prebunking hoax/hoax; SeedLow after participate x4,            *)
(* prebunking verified/hoax x24, professional success, professional        *)
(* failure x3, prebunking hoax/hoax, stay_silent.                          *)

SeedHigh ==
    [session_id |-> "s1",
     public_trust |-> 97,
     personal_clout |-> 99,
     professional_skill |-> 96,
     relationships |-> [victim |-> 98]]

SeedLow ==
    [session_id |-> "s1",
     public_trust |-> 2,
     personal_clout |-> 1,
     professional_skill |-> 1,
     relationships |-> [victim |-> 3, bystander |-> 10]]

-----------------------------------------------------------------------------
(* State *)

Workers == {"w1", "w2"}

NoResponse == [status |-> 0]

NoRequest == [op |-> "none"]

\* the request `body` of handler `op`, arriving at the store as it is now
Arrived(op, body) ==
    [op |-> op, body |-> body, players |-> players, actionlog |-> actionlog]

Init ==
    /\ players \in {<<>>, <<SeedHigh>>, <<SeedLow>>}
    /\ actionlog = <<>>
    /\ resp = NoResponse
    /\ last = NoRequest
    /\ pc = [w \in Workers |-> "idle"]
    /\ wreq = [w \in Workers |-> EmptyDict]
    /\ wloc = [w \in Workers |-> EmptyDict]
    /\ writes = <<>>

-----------------------------------------------------------------------------
(* The handlers, one request at a time *)

\* POST /api/start
StartSession(body) ==
    LET existing == FindOne(players, body.session_id)
    IN  /\ IF DocTruthy(existing)
           THEN /\ resp' = StartResponse(body.session_id, existing)
                /\ UNCHANGED players
           ELSE /\ players' = CreateDocument(players, Player(body.session_id))
                /\ resp' = [status |-> 200, body |-> Player(body.session_id)]
        /\ last' = Arrived("start_session", body)
        /\ UNCHANGED <<actionlog, pc, wreq, wloc, writes>>

\* POST /api/choice.  The document read, the lower-cased tag and the
\* resolver's result are bound once, as the handler's locals are.
SubmitChoice(body) ==
    \E player_doc \in {FindOne(players, body.session_id)}, module \in {Lower(body.module)} :
    \E r \in {Resolve(player_doc, module, body.payload)} :
        /\ IF ~DocTruthy(player_doc)
           THEN /\ resp' = HTTPException(404, "Session not found. Start first.")
                /\ UNCHANGED <<players, actionlog>>
           ELSE IF ~r.ok
           THEN /\ resp' = HTTPException(400, "Unknown module")
                /\ UNCHANGED <<players, actionlog>>
           ELSE /\ players' = UpdateOne(players, body.session_id, SetFields(r))
                /\ actionlog' = CreateDocument(actionlog,
                        ActionLog(body.session_id, module, body.action_type,
                                  body.payload, r.outcome))
                /\ resp' = ChoiceResponse(body.session_id, r)
        /\ last' = Arrived("submit_choice", body)
        /\ UNCHANGED <<pc, wreq, wloc, writes>>

Next ==
    \/ \E sid \in SessionIds : StartSession(StartSessionRequest(sid))
    \/ \E body \in Requests : Len(actionlog) < MaxLog /\ SubmitChoice(body)

Spec == Init /\ [][Next]_vars

-----------------------------------------------------------------------------
(* The handlers of concurrent requests: each worker runs one handler at a  *)
(* time and the store calls of different workers interleave.               *)

\* the choice requests that race in the interleaved specification
ConcRequests ==
    {ChoiceRequest("s1", ETHICAL, "decide", [choice |-> "participate"]),
     ChoiceRequest("s1", PROFESSIONAL, "task", [success |-> TRUE]),
     ChoiceRequest("s1", QuizTag, "decide", EmptyDict),
     ChoiceRequest("s2", EthicalCapital, "decide", [choice |-> "report"])}

\* update_one calls issued or about to be issued whose log document is not yet appended
InFlight == {w \in Workers : pc[w] \in {"update", "log"}}

\* start_session up to its find_one: answer for an existing document, or go on to create
StartFind(w, body) ==
    LET existing == FindOne(players, body.session_id)
    IN  /\ pc[w] = "idle"
        /\ IF DocTruthy(existing)
           THEN /\ resp' = StartResponse(body.session_id, existing)
                /\ UNCHANGED <<pc, wreq>>
           ELSE /\ pc' = [pc EXCEPT ![w] = "create"]
                /\ wreq' = [wreq EXCEPT ![w] = body]
                /\ UNCHANGED resp
        /\ UNCHANGED <<players, actionlog, last, wloc, writes>>

\* start_session from create_document to its return
StartCreate(w) ==
    /\ pc[w] = "create"
    /\ players' = CreateDocument(players, Player(wreq[w].session_id))
    /\ resp' = [status |-> 200, body |-> Player(wreq[w].session_id)]
    /\ pc' = [pc EXCEPT ![w] = "idle"]
    /\ UNCHANGED <<actionlog, last, wreq, wloc, writes>>

\* submit_choice up to update_one: find_one, the resolver, the two error exits
ChoiceRead(w, body) ==
    \E player_doc \in {FindOne(players, body.session_id)} :
    \E r \in {Resolve(player_doc, Lower(body.module), body.payload)} :
        /\ pc[w] = "idle"
        /\ IF ~DocTruthy(player_doc)
           THEN /\ resp' = HTTPException(404, "Session not found. Start first.")
                /\ UNCHANGED <<pc, wreq, wloc>>
           ELSE IF ~r.ok
           THEN /\ resp' = HTTPException(400, "Unknown module")
                /\ UNCHANGED <<pc, wreq, wloc>>
           ELSE /\ pc' = [pc EXCEPT ![w] = "update"]
                /\ wreq' = [wreq EXCEPT ![w] = body]
                /\ wloc' = [wloc EXCEPT ![w] = [player_doc |-> player_doc, r |-> r]]
                /\ UNCHANGED resp
        /\ UNCHANGED <<players, actionlog, last, writes>>

WrittenFieldsFromStore(w) ==
    SetFields(Resolve(FindOne(players, wreq[w].session_id),
                      Lower(wreq[w].module), wreq[w].payload))

\* the fields update_one sets, from the handler's locals
WrittenFields(w) == SetFields(wloc[w].r)

\* submit_choice's update_one
ChoiceUpdate(w) ==
    /\ pc[w] = "update"
    /\ players' = UpdateOne(players, wreq[w].session_id, WrittenFields(w))
    /\ writes' = Append(writes,
            [worker |-> w, body |-> wreq[w], player_doc |-> wloc[w].player_doc,
             stored |-> FindOne(players, wreq[w].session_id)])
    /\ pc' = [pc EXCEPT ![w] = "log"]
    /\ UNCHANGED <<actionlog, resp, last, wreq, wloc>>

\* submit_choice from create_document of the log to its return
ChoiceLog(w) ==
    /\ pc[w] = "log"
    /\ actionlog' = CreateDocument(actionlog,
            ActionLog(wreq[w].session_id, Lower(wreq[w].module), wreq[w].action_type,
                      wreq[w].payload, wloc[w].r.outcome))
    /\ resp' = ChoiceResponse(wreq[w].session_id, wloc[w].r)
    /\ pc' = [pc EXCEPT ![w] = "idle"]
    /\ UNCHANGED <<players, last, wreq, wloc, writes>>

NextConc ==
    \/ \E w \in Workers, sid \in SessionIds : StartFind(w, StartSessionRequest(sid))
    \/ \E w \in Workers : StartCreate(w)
    \/ \E w \in Workers, body \in ConcRequests :
            Len(actionlog) + Cardinality(InFlight) < MaxLog /\ ChoiceRead(w, body)
    \/ \E w \in Workers : ChoiceUpdate(w)
    \/ \E w \in Workers : ChoiceLog(w)

SpecConc == Init /\ [][NextConc]_vars

-----------------------------------------------------------------------------
(* Reading the history variables *)

Clamp(x) == IF x < 0 THEN 0 ELSE IF x > 100 THEN 100 ELSE x

InRange(v) == v \in 0..100

StatFields == {"public_trust", "personal_clout", "professional_skill"}

\* the session the last request names
LastSid == last.body.session_id

\* whether the session had a player document when the last request arrived
WasStarted == Matching(last.players, LastSid) # {}

\* that session's player document when the last request arrived, and now
Before == FindOne(last.players, LastSid)

After == FindOne(players, LastSid)

\* the documents of the other sessions, and the number of documents, are as they were
OthersUntouched ==
    /\ Len(players) = Len(last.players)
    /\ \A i \in DOMAIN players :
            players[i].session_id # LastSid => players[i] = last.players[i]

\* a relationship score as the rules read it
Affinity(doc, k) == IF k \in DOMAIN doc.relationships THEN doc.relationships[k] ELSE 50

LastModuleIs(tag) == last.op = "submit_choice" /\ Lower(last.body.module) = tag

-----------------------------------------------------------------------------
(* C1 *)

PlayerInRange(doc) ==
    /\ \A f \in StatFields : InRange(doc[f])
    /\ \A k \in DOMAIN doc.relationships : InRange(doc.relationships[k])

\* C1: after any sequence of start_session and submit_choice calls, every
\* stored player document has public_trust, personal_clout and
\* professional_skill in [0,100] and every relationships entry in [0,100],
\* and so has every response that reports stats.
C1_StoredStatsInRange ==
    /\ \A i \in DOMAIN players : PlayerInRange(players[i])
    /\ resp.status = 200 => PlayerInRange(resp.body)

\* a choice whose sums left the range on both fields it touched was stored clamped
C1_ClampedWriteReached ==
    /\ LastModuleIs(ETHICAL)
    /\ WasStarted
    /\ resp.status = 200
    /\ last.body.payload = [choice |-> "intervene"]
    /\ Before.public_trust + 6 > 100
    /\ Affinity(Before, "victim") + 8 > 100
    /\ After.public_trust = 100
    /\ After.relationships["victim"] = 100

-----------------------------------------------------------------------------
(* C2 *)

\* the stats of a fresh player
DefaultStats(session_id) ==
    [session_id |-> session_id,
     public_trust |-> 50,
     personal_clout |-> 50,
     professional_skill |-> 0,
     relationships |-> EmptyDict]

\* C2: start_session for a session without a player document creates
\* exactly one document with the default stats and returns it; for a
\* session that has one it returns exactly the stored stats and leaves the
\* store as it was; either way the session then has exactly one document
\* and the action log is untouched.
C2_StartIdempotentCreate ==
    last.op = "start_session" =>
        /\ actionlog = last.actionlog
        /\ Cardinality(Matching(players, LastSid)) = 1
        /\ resp.status = 200
        /\ resp.body = After
        /\ IF WasStarted
           THEN players = last.players
           ELSE players = Append(last.players, DefaultStats(LastSid))

\* session s2 was started, made a choice that moved its stats, and was started again
C2_RestartAfterChoiceReached ==
    /\ last.op = "start_session"
    /\ LastSid = "s2"
    /\ WasStarted
    /\ \E i \in DOMAIN actionlog : actionlog[i].session_id = "s2"
    /\ resp.body.public_trust = 38
    /\ resp.body.relationships = [victim |-> 40, bystander |-> 40]

-----------------------------------------------------------------------------
(* C3 *)

\* C3: submit_choice for a session without a player document answers 404,
\* whatever its module and payload, and leaves the player collection and
\* the action log as they were.
C3_NotFoundChangesNothing ==
    (last.op = "submit_choice" /\ ~WasStarted) =>
        /\ resp.status = 404
        /\ players = last.players
        /\ actionlog = last.actionlog

\* a choice with a recognised module and payload was refused for a session never started
C3_NotFoundReached ==
    /\ LastModuleIs(ETHICAL)
    /\ last.body.payload = [choice |-> "participate"]
    /\ ~WasStarted
    /\ resp.status = 404
    /\ Len(players) > 0

-----------------------------------------------------------------------------
(* C4 *)

\* C4 as stated: a tag that is not literally one of the three is refused
C4_ExactTagOrBadRequest ==
    (last.op = "submit_choice" /\ WasStarted /\ last.body.module \notin KnownModules) =>
        /\ resp.status = 400
        /\ players = last.players
        /\ actionlog = last.actionlog

\* C4: submit_choice for a started session whose module tag, lower-cased,
\* is not one of prebunking, ethical, professional answers 400, leaves the
\* player collection as it was and appends no action log document.
C4_UnknownModuleBadRequest ==
    (last.op = "submit_choice" /\ WasStarted /\ Lower(last.body.module) \notin KnownModules) =>
        /\ resp.status = 400
        /\ players = last.players
        /\ actionlog = last.actionlog

\* a choice of no module was refused for a started session that had made choices
C4_BadRequestReached ==
    /\ last.op = "submit_choice"
    /\ last.body.module = QuizTag
    /\ WasStarted
    /\ resp.status = 400
    /\ Len(actionlog) > 0

-----------------------------------------------------------------------------
(* C5 *)

\* the deltas an outcome reports: for the three stats, and per relationship key
ReportedDelta(outcome) == IF "delta" \in DOMAIN outcome THEN outcome.delta ELSE EmptyDict

ReportedRelDelta(outcome) ==
    IF "relationships" \in DOMAIN ReportedDelta(outcome)
    THEN ReportedDelta(outcome).relationships
    ELSE EmptyDict

\* the stored document `new` is the document `old` with exactly the
\* deltas `stat` (per stat field) and `rel` (per relationship key) added and clamped
MovedBy(old, new, stat, rel) ==
    /\ \A f \in StatFields :
            new[f] = IF f \in DOMAIN stat THEN Clamp(old[f] + stat[f]) ELSE old[f]
    /\ DOMAIN new.relationships = DOMAIN old.relationships \cup DOMAIN rel
    /\ \A k \in DOMAIN new.relationships :
            new.relationships[k] =
                IF k \in DOMAIN rel THEN Clamp(Affinity(old, k) + rel[k])
                ELSE old.relationships[k]
    /\ new.session_id = old.session_id

\* C5: for every successful submit_choice the deltas in the returned
\* outcome mirror the arithmetic applied to the stored stats: each stat or
\* relationship key named in outcome.delta is stored as clamp(old + delta)
\* (an absent relationship read as 50) and every other stat or relationship
\* is stored unchanged.
C5_DeltaMirrorsArithmetic ==
    (last.op = "submit_choice" /\ resp.status = 200) =>
        /\ MovedBy(Before, After,
                   [f \in DOMAIN ReportedDelta(resp.body.outcome) \cap StatFields |->
                        ReportedDelta(resp.body.outcome)[f]],
                   ReportedRelDelta(resp.body.outcome))
        /\ OthersUntouched

\* a reported relationship delta was applied to an absent key, read as 50,
\* next to a reported trust delta that was clamped
C5_ReportedDeltaAppliedReached ==
    /\ last.op = "submit_choice"
    /\ WasStarted
    /\ resp.status = 200
    /\ ReportedRelDelta(resp.body.outcome) = [victim |-> 8, bystander |-> 8]
    /\ "bystander" \notin DOMAIN Before.relationships
    /\ After.relationships["bystander"] = 58
    /\ Before.public_trust = 97
    /\ After.public_trust = 100

-----------------------------------------------------------------------------
(* C6 *)

PayloadHas(key, values) ==
    key \in DOMAIN last.body.payload /\ last.body.payload[key] \in values

\* C6: a prebunking choice on a started session with label and truth among
\* verified, misleading, hoax: a correct label gives trust +5 and clout +2
\* (truth verified) or -1, message "Good call."; an incorrect one gives
\* trust -8 and clout +4 (label not verified) or -2, message "That choice
\* undermined trust."; results clamped, skill and relationships unchanged.
C6_PrebunkingRule ==
    (LastModuleIs(PREBUNKING) /\ WasStarted
        /\ PayloadHas("label", Labels) /\ PayloadHas("truth", Labels)) =>
        LET label == last.body.payload.label
            truth == last.body.payload.truth
        IN  /\ resp.status = 200
            /\ IF label = truth
               THEN /\ resp.body.outcome.message = "Good call."
                    /\ MovedBy(Before, After,
                               [public_trust |-> 5,
                                personal_clout |-> IF truth = "verified" THEN 2 ELSE -1],
                               EmptyDict)
               ELSE /\ resp.body.outcome.message = "That choice undermined trust."
                    /\ MovedBy(Before, After,
                               [public_trust |-> -8,
                                personal_clout |-> IF label = "verified" THEN -2 ELSE 4],
                               EmptyDict)

\* a wrong "verified" label on a hoax took trust and clout to the floor
C6_WrongVerifiedReached ==
    /\ LastModuleIs(PREBUNKING)
    /\ WasStarted
    /\ last.body.payload = [label |-> "verified", truth |-> "hoax"]
    /\ Before.public_trust = 2
    /\ Before.personal_clout = 1
    /\ After.public_trust = 0
    /\ After.personal_clout = 0
    /\ resp.body.outcome.message = "That choice undermined trust."

-----------------------------------------------------------------------------
(* C7 *)

\* the ethical rules: the trust delta and the relationship deltas of each choice
EthicalRule ==
    [intervene |-> [trust |-> 6, rel |-> [victim |-> 8, bystander |-> 8]],
     report |-> [trust |-> 4, rel |-> [victim |-> 6]],
     stay_silent |-> [trust |-> -5, rel |-> [victim |-> -7]],
     participate |-> [trust |-> -12, rel |-> [victim |-> -10, bystander |-> -10]]]

\* C7: an ethical choice on a started session applies its rule (intervene
\* trust +6, victim and bystander +8; report trust +4, victim +6;
\* stay_silent trust -5, victim -7; participate trust -12, victim and
\* bystander -10), each result clamped and an absent relationship read as
\* 50; any other or missing choice succeeds with "No effect" and changes
\* nothing; clout, skill and the relationship keys the rule does not name
\* stay as they were and no other key appears.
C7_EthicalRule ==
    (LastModuleIs(ETHICAL) /\ WasStarted) =>
        /\ resp.status = 200
        /\ IF PayloadHas("choice", DOMAIN EthicalRule)
           THEN MovedBy(Before, After,
                        [public_trust |-> EthicalRule[last.body.payload.choice].trust],
                        EthicalRule[last.body.payload.choice].rel)
           ELSE /\ After = Before
                /\ resp.body.outcome = [message |-> "No effect"]

\* participate took trust and victim to the floor and left bystander at 0 exactly
C7_ParticipateAtFloorReached ==
    /\ LastModuleIs(ETHICAL)
    /\ WasStarted
    /\ last.body.payload = [choice |-> "participate"]
    /\ Before.public_trust = 2
    /\ Before.relationships = [victim |-> 3, bystander |-> 10]
    /\ After.public_trust = 0
    /\ After.relationships = [victim |-> 0, bystander |-> 0]
    /\ After.personal_clout = Before.personal_clout

-----------------------------------------------------------------------------
(* C8 *)

\* C8: a professional choice on a started session: success true gives
\* skill min(100, skill+7) and trust min(100, trust+2); success false or
\* absent gives skill max(0, skill-2) and leaves trust; clout and
\* relationships stay.  So a failed attempt at skill 0 leaves skill 0.
C8_ProfessionalRule ==
    (LastModuleIs(PROFESSIONAL) /\ WasStarted) =>
        /\ resp.status = 200
        /\ IF PayloadHas("success", {TRUE})
           THEN /\ After.professional_skill = Min(100, Before.professional_skill + 7)
                /\ After.public_trust = Min(100, Before.public_trust + 2)
           ELSE /\ After.professional_skill = Max(0, Before.professional_skill - 2)
                /\ After.public_trust = Before.public_trust
        /\ After.personal_clout = Before.personal_clout
        /\ After.relationships = Before.relationships
        /\ After.professional_skill >= 0

\* a second failed attempt in a row at skill 0 left skill 0
C8_FailedAtZeroReached ==
    /\ LastModuleIs(PROFESSIONAL)
    /\ WasStarted
    /\ ~PayloadHas("success", {TRUE})
    /\ Before.professional_skill = 0
    /\ After.professional_skill = 0
    /\ Len(last.actionlog) > 0
    /\ last.actionlog[Len(last.actionlog)].session_id = LastSid
    /\ last.actionlog[Len(last.actionlog)].outcome.message = "Incomplete attempt. Try again."

-----------------------------------------------------------------------------
(* C9 *)

\* the last request was a choice for a started session with a recognised tag
ChoiceAccepted ==
    last.op = "submit_choice" /\ WasStarted /\ Lower(last.body.module) \in KnownModules

\* the stored player document holds the four fields the response returned
StoredAsReturned ==
    \A f \in StatFields \cup {"relationships"} : After[f] = resp.body[f]

\* C9 as stated: the appended document carries the request's module tag as sent
C9_LogCarriesRequestAsSent ==
    ChoiceAccepted =>
        actionlog = Append(last.actionlog,
            [session_id |-> LastSid,
             module |-> last.body.module,
             action_type |-> last.body.action_type,
             payload |-> last.body.payload,
             outcome |-> resp.body.outcome])

\* C9: every successful submit_choice (started session, recognised tag,
\* an ethical no-op included) stores the four fields it returns and
\* appends exactly one action log document carrying the request's
\* session_id, its module tag lower-cased, its action_type, its payload
\* and the outcome returned to the caller; every other request leaves the
\* action log as it was, so earlier documents are never changed or removed
\* and the log holds the successful choices in submission order.
C9_LogAppendOnly ==
    /\ ChoiceAccepted =>
            /\ resp.status = 200
            /\ StoredAsReturned
            /\ actionlog = Append(last.actionlog,
                    [session_id |-> LastSid,
                     module |-> Lower(last.body.module),
                     action_type |-> last.body.action_type,
                     payload |-> last.body.payload,
                     outcome |-> resp.body.outcome])
    /\ (last.op # "none" /\ ~ChoiceAccepted) => actionlog = last.actionlog

\* an ethical no-op was logged as the second document, behind an earlier one
C9_SecondEntryReached ==
    /\ ChoiceAccepted
    /\ last.body.payload = [choice |-> "other"]
    /\ Len(actionlog) = 2
    /\ actionlog[1] = last.actionlog[1]
    /\ actionlog[1].module = PREBUNKING
    /\ actionlog[2].module = ETHICAL
    /\ actionlog[2].outcome = [message |-> "No effect"]

-----------------------------------------------------------------------------
(* C10 *)

\* the update_one calls applied to a session's document, by position in `writes`
WritesTo(session_id) == {i \in DOMAIN writes : writes[i].body.session_id = session_id}

\* what the resolver makes of a request on a given player document
Computed(player_doc, body) ==
    SetFields(Resolve(player_doc, Lower(body.module), body.payload))

\* the four fields of a stored player document
FourFields(doc) == [f \in StatFields \cup {"relationships"} |-> doc[f]]

\* C10: submit_choice is an unserialised read-modify-write: the document
\* of a session holds, after each update_one, the four fields computed
\* from the document that update's handler had read, whatever other
\* handlers wrote between that read and the update.
C10_WriteReplacesFromOwnRead ==
    \A sid \in SessionIds :
        WritesTo(sid) # {} =>
            LET i == CHOOSE n \in WritesTo(sid) : \A m \in WritesTo(sid) : m <= n
            IN  FourFields(FindOne(players, sid))
                    = Computed(writes[i].player_doc, writes[i].body)

\* two choices for one session both read the document before either wrote
\* it; both succeeded and both are logged, and the stored stats are those
\* of the second write alone: the first choice's change is lost
C10_LostUpdateReached ==
    /\ \A w \in Workers : pc[w] = "idle"
    /\ Len(writes) = 2
    /\ Len(actionlog) = 2
    /\ writes[1].body.session_id = writes[2].body.session_id
    /\ writes[1].worker # writes[2].worker
    /\ writes[1].player_doc = writes[1].stored
    /\ writes[2].player_doc = writes[1].stored
    /\ writes[2].stored # writes[1].stored
    /\ {actionlog[1].payload, actionlog[2].payload}
            = {writes[1].body.payload, writes[2].body.payload}
    /\ writes[1].body.payload # writes[2].body.payload
    /\ FourFields(FindOne(players, writes[2].body.session_id))
            = Computed(writes[1].stored, writes[2].body)
    /\ FourFields(FindOne(players, writes[2].body.session_id))
            # Computed(writes[2].stored, writes[2].body)

=============================================================================
